---- MODULE Spec2Model ----
(***************************************************************************)
(* Model of the batch-correction core: src/correct.py (sphering,           *)
(* select_best, the correction units and get_method_map) and the sweep     *)
(* driver src/explore_reg_params.py (explore_params).                      *)
(*                                                                         *)
(* One behaviour is one call of one entry point.  Init draws the entry     *)
(* point (op) and its arguments; pc is the position inside the call; err   *)
(* is the exception that ended it ("none" while running / on success).     *)
(***************************************************************************)
EXTENDS Integers, Sequences, FiniteSets, TLC

VARIABLES
    op,             \* entry point being executed
    pc,             \* position inside it
    err,            \* exception that ended the call, "none" otherwise
    log,            \* sequence of the external effects performed so far
    disk,           \* the output paths: path -> file record
    disk0,          \* the output paths as they were before the call
    \* ---- sphering (src/correct.py:25-39)
    mode, lambda_, column_norm, values_norm, dframe, spherer, meta, vals,
    features, train_ix,
    \* ---- select_best (src/correct.py:42-49)
    map_files, parquet_files, i, scores, best_parquet,
    \* ---- get_method_map and the correction units (src/correct.py:52-139)
    batch_key, label_key, correction_map, via, unit, corrected_embed, adata,
    adata0,
    \* ---- explore_params (src/explore_reg_params.py:16-40)
    n_opts, config, tmpfs, exc, started

sphVars == <<mode, lambda_, column_norm, values_norm, dframe, spherer, meta,
             vals, features, train_ix>>
selVars == <<map_files, parquet_files, scores, best_parquet>>
regVars == <<batch_key, label_key, correction_map, via, unit,
             corrected_embed, adata, adata0>>
expVars == <<n_opts, config, tmpfs, exc, started>>
vars == <<op, pc, err, log, disk, disk0, sphVars, selVars, i, regVars, expVars>>

\* ------------------------------------------------------------------ bounds
MaxRows == 3        \* rows of the dataset handed to sphering
MaxCands == 3       \* length of the lists handed to select_best
MaxOpts == 3        \* n_opts handed to explore_params

\* ----------------------------------------------------------------- helpers
Absent == [kind |-> "absent"]
OldFile == [kind |-> "old"]
PriorContents == {Absent, OldFile}

Range(s) == {s[k] : k \in DOMAIN s}

RECURSIVE SeqsUpTo(_, _)
SeqsUpTo(S, n) ==
    IF n = 0 THEN {<<>>}
    ELSE LET shorter == SeqsUpTo(S, n - 1)
         IN shorter \cup {Append(s, x) : s \in {t \in shorter : Len(t) = n - 1}, x \in S}

RECURSIVE SumSeq(_)
SumSeq(s) == IF s = <<>> THEN 0 ELSE Head(s) + SumSeq(Tail(s))

Min2(a, b) == IF a <= b THEN a ELSE b

\* =================================================================
\* sphering                                     src/correct.py:25-39
\* =================================================================

Modes == {"corr", "cov", "invalid"}
Regularizations == {1, 2}
Labels == {"ctrl", "trt"}
ColumnNames == {"label", "nocol"}
ValueSets == {{}, {"ctrl"}, {"ctrl", "trt"}, {"other"}}
FeatureNames == <<"f1", "f2">>

\* Row r of the stored values matrix (float64 on disk).
RowOf(r) == <<r, 2 * r + 1>>

\* The datasets split_parquet can return: metadata with the columns "label"
\* and "well", co-indexed values (at least one row), and the feature list.
Datasets ==
    {[meta |-> [label |-> lab, well |-> [r \in 1..Len(lab) |-> r]],
      vals |-> [dtype |-> "float64", rows |-> [r \in 1..Len(lab) |-> RowOf(r)]],
      features |-> FeatureNames] : lab \in SeqsUpTo(Labels, MaxRows) \ {<<>>}}

NoDataset ==
    [meta |-> [label |-> <<>>, well |-> <<>>],
     vals |-> [dtype |-> "float64", rows |-> <<>>],
     features |-> <<>>]

NoSpherer == [cls |-> "none", regularization |-> 0, fitted |-> FALSE,
              n |-> 0, sums |-> <<>>]

RECURSIVE SelectRows(_, _)
\* vals[train_ix]: boolean-mask row selection, order kept.
SelectRows(rows, mask) ==
    IF rows = <<>> THEN <<>>
    ELSE IF Head(mask) THEN <<Head(rows)>> \o SelectRows(Tail(rows), Tail(mask))
         ELSE SelectRows(Tail(rows), Tail(mask))

\* meta[column_norm].isin(values_norm).values
isin(column, values) == [r \in DOMAIN column |-> column[r] \in values]

\* The statistics a whitening fit keeps: per-column sums and the row count.
ZCA_fit(sp, rows) ==
    [sp EXCEPT !.fitted = TRUE, !.n = Len(rows),
               !.sums = [c \in 1..Len(FeatureNames) |->
                            SumSeq([r \in 1..Len(rows) |-> rows[r][c]])]]

\* The fitted linear map applied row by row (centred on the training sums).
ZCA_transform(sp, v) ==
    [dtype |-> v.dtype,
     rows |-> [r \in 1..Len(v.rows) |->
                 [c \in 1..Len(v.rows[r]) |-> sp.n * v.rows[r][c] - sp.sums[c]]]]

astype_float32(v) == [v EXCEPT !.dtype = "float32"]

Raise(e) == /\ err' = e
            /\ pc' = "done"

\* Variant of sphering_make without the else branch: an unknown mode falls
\* back to the covariance operator.
sphering_make_default ==
    /\ op = "sphering" /\ pc = "make"
    /\ spherer' = [NoSpherer EXCEPT !.cls = IF mode = "corr" THEN "ZCA_corr" ELSE "ZCA",
                                    !.regularization = lambda_]
    /\ pc' = "split"
    /\ UNCHANGED <<op, err, log, disk, disk0, mode, lambda_, column_norm,
                   values_norm, dframe, meta, vals, features, train_ix, selVars,
                   i, regVars, expVars>>

\* lines 27-32: the operator is constructed, or the mode is rejected.
sphering_make ==
    /\ op = "sphering" /\ pc = "make"
    /\ IF mode = "corr"
         THEN /\ spherer' = [NoSpherer EXCEPT !.cls = "ZCA_corr", !.regularization = lambda_]
              /\ pc' = "split" /\ UNCHANGED err
       ELSE IF mode = "cov"
         THEN /\ spherer' = [NoSpherer EXCEPT !.cls = "ZCA", !.regularization = lambda_]
              /\ pc' = "split" /\ UNCHANGED err
       ELSE /\ Raise("ValueError") /\ UNCHANGED spherer
    /\ UNCHANGED <<op, log, disk, disk0, mode, lambda_, column_norm, values_norm, dframe, meta,
                   vals, features, train_ix, selVars, i, regVars, expVars>>

\* line 34: split_parquet(dframe_path); the read may fail.
sphering_split ==
    /\ op = "sphering" /\ pc = "split"
    /\ \/ /\ meta' = dframe.meta /\ vals' = dframe.vals /\ features' = dframe.features
          /\ log' = Append(log, "split_parquet")
          /\ pc' = "mask" /\ UNCHANGED err
       \/ /\ Raise("OSError")
          /\ log' = Append(log, "split_parquet_failed")
          /\ UNCHANGED <<meta, vals, features>>
    /\ UNCHANGED <<op, disk, disk0, mode, lambda_, column_norm, values_norm, dframe, spherer,
                   train_ix, selVars, i, regVars, expVars>>

\* line 35: the training mask; a missing metadata column is a KeyError.
sphering_mask ==
    /\ op = "sphering" /\ pc = "mask"
    /\ IF column_norm \in DOMAIN meta
         THEN /\ train_ix' = isin(meta[column_norm], values_norm)
              /\ pc' = "fit" /\ UNCHANGED err
         ELSE /\ Raise("KeyError") /\ UNCHANGED train_ix
    /\ UNCHANGED <<op, log, disk, disk0, mode, lambda_, column_norm, values_norm, dframe,
                   spherer, meta, vals, features, selVars, i, regVars, expVars>>

\* line 36: spherer.fit(vals[train_ix]).  No guard precedes the call: fit is
\* invoked ("fit_call") on whatever the mask selects, zero rows included.  The
\* decomposition belongs to the zca library and may fail.
sphering_fit ==
    /\ op = "sphering" /\ pc = "fit"
    /\ LET training == SelectRows(vals.rows, train_ix)
       IN \/ /\ spherer' = ZCA_fit(spherer, training)
             /\ log' = log \o <<"fit_call", "fit">>
             /\ pc' = "transform" /\ UNCHANGED err
          \/ /\ Raise("FitError")
             /\ log' = log \o <<"fit_call", "fit_failed">>
             /\ UNCHANGED spherer
    /\ UNCHANGED <<op, disk, disk0, mode, lambda_, column_norm, values_norm,
                   dframe, meta, vals, features, train_ix, selVars, i, regVars,
                   expVars>>

\* Variant of sphering_transform that catches a failed transform and goes on
\* with the untransformed values.
sphering_transform_swallow ==
    /\ op = "sphering" /\ pc = "transform"
    /\ \/ /\ vals' = astype_float32(ZCA_transform(spherer, vals))
          /\ log' = Append(log, "transform")
       \/ /\ log' = Append(log, "transform_failed")
          /\ UNCHANGED vals
    /\ pc' = "merge" /\ UNCHANGED err
    /\ UNCHANGED <<op, disk, disk0, mode, lambda_, column_norm, values_norm,
                   dframe, spherer, meta, features, train_ix, selVars, i, regVars,
                   expVars>>

\* Variant of sphering_transform that transforms only the training rows.
sphering_transform_train_only ==
    /\ op = "sphering" /\ pc = "transform"
    /\ \/ /\ vals' = astype_float32(ZCA_transform(spherer,
                        [vals EXCEPT !.rows = SelectRows(vals.rows, train_ix)]))
          /\ log' = Append(log, "transform")
          /\ pc' = "merge" /\ UNCHANGED err
       \/ /\ Raise("TransformError")
          /\ log' = Append(log, "transform_failed")
          /\ UNCHANGED vals
    /\ UNCHANGED <<op, disk, disk0, mode, lambda_, column_norm, values_norm,
                   dframe, spherer, meta, features, train_ix, selVars, i, regVars,
                   expVars>>

\* line 37: the whole matrix is transformed and cast to float32.
sphering_transform ==
    /\ op = "sphering" /\ pc = "transform"
    /\ \/ /\ vals' = astype_float32(ZCA_transform(spherer, vals))
          /\ log' = Append(log, "transform")
          /\ pc' = "merge" /\ UNCHANGED err
       \/ /\ Raise("TransformError")
          /\ log' = Append(log, "transform_failed")
          /\ UNCHANGED vals
    /\ UNCHANGED <<op, disk, disk0, mode, lambda_, column_norm, values_norm, dframe, spherer,
                   meta, features, train_ix, selVars, i, regVars, expVars>>

\* line 38: merge_parquet(meta, vals, features, sphered_path).
sphering_merge ==
    /\ op = "sphering" /\ pc = "merge"
    /\ \/ /\ disk' = [disk EXCEPT !["sphered_path"] =
                        [kind |-> "dataset", meta |-> meta, vals |-> vals,
                         features |-> features]]
          /\ log' = Append(log, "write_sphered")
          /\ pc' = "savez" /\ UNCHANGED err
       \/ /\ Raise("OSError")
          /\ UNCHANGED <<disk, log>>
    /\ UNCHANGED <<op, disk0, sphVars, selVars, i, regVars, expVars>>

\* line 39: np.savez_compressed(spherer_path, spherer=spherer).
sphering_savez ==
    /\ op = "sphering" /\ pc = "savez"
    /\ \/ /\ disk' = [disk EXCEPT !["spherer_path"] =
                        [kind |-> "npz", spherer |-> spherer]]
          /\ log' = Append(log, "write_spherer")
          /\ pc' = "done" /\ UNCHANGED err
       \/ /\ Raise("OSError")
          /\ UNCHANGED <<disk, log>>
    /\ UNCHANGED <<op, disk0, sphVars, selVars, i, regVars, expVars>>

sphering ==
    \/ sphering_make
    \/ sphering_split
    \/ sphering_mask
    \/ sphering_fit
    \/ sphering_transform
    \/ sphering_merge
    \/ sphering_savez


\* =================================================================
\* select_best                                  src/correct.py:42-49
\* =================================================================

MapNames == {"m_nocol", "m_empty", "m_a", "m_b", "m_c", "m_d"}
ParquetNames == {"a", "b", "c"}

\* pd.read_parquet(map_file): the evaluation tables on disk.  m_nocol has no
\* mean_average_precision column, m_empty has the column and no rows, m_a and
\* m_b have the same mean from different rows.
read_parquet(m) ==
    CASE m = "m_nocol" -> [columns |-> {"other"}, mean_average_precision |-> <<>>]
      [] m = "m_empty" -> [columns |-> {"mean_average_precision"}, mean_average_precision |-> <<>>]
      [] m = "m_a" -> [columns |-> {"mean_average_precision"}, mean_average_precision |-> <<2, 4>>]
      [] m = "m_b" -> [columns |-> {"mean_average_precision"}, mean_average_precision |-> <<3>>]
      [] m = "m_c" -> [columns |-> {"mean_average_precision"}, mean_average_precision |-> <<1>>]
      [] m = "m_d" -> [columns |-> {"mean_average_precision"}, mean_average_precision |-> <<2>>]

\* Series.mean(): sum over count, kept as a fraction; 0/0 is NaN.
mean(col) == [num |-> SumSeq(col), den |-> Len(col)]
IsNaN(x) == x.den = 0
\* x < y on floats: false as soon as one side is NaN.
Lt(x, y) == ~IsNaN(x) /\ ~IsNaN(y) /\ x.num * y.den < y.num * x.den

\* scores[parquet_file] = mean_map on a Series: an existing label keeps its
\* position and takes the new value, a new label is appended.
setitem(s, key, val) ==
    IF \E k \in DOMAIN s : s[k].key = key
      THEN [k \in DOMAIN s |-> IF s[k].key = key THEN [key |-> key, val |-> val] ELSE s[k]]
      ELSE Append(s, [key |-> key, val |-> val])

\* Series.sort_values() with its defaults (ascending, kind='quicksort',
\* na_position='last'): every ordering it may return.  The default sort is not
\* stable, so entries with equal values come in any order; NaN entries are put
\* last in their original order.
sort_values(s) ==
    LET n == Len(s)
        perms == {p \in [1..n -> 1..n] : \A a, b \in 1..n : a # b => p[a] # p[b]}
        ordered(p) ==
            \A a, b \in 1..n : a < b =>
                LET x == s[p[a]].val
                    y == s[p[b]].val
                IN /\ ~Lt(y, x)
                   /\ IsNaN(x) => (IsNaN(y) /\ p[a] < p[b])
    IN {[k \in 1..n |-> s[p[k]]] : p \in {q \in perms : ordered(q)}}

\* shutil.copy(src, dst): dst holds the bytes of src.
copy(src) == [kind |-> "copy", of |-> src]

\* Variant of select_best_loop that reads the score column leniently: a
\* table without the column scores NaN instead of raising.
select_best_loop_lenient ==
    /\ op = "select_best" /\ pc = "loop"
    /\ i < Min2(Len(map_files), Len(parquet_files))
    /\ LET table == read_parquet(map_files[i + 1])
       IN /\ scores' = setitem(scores, parquet_files[i + 1],
                               mean(table.mean_average_precision))
          /\ i' = i + 1
          /\ UNCHANGED <<pc, err>>
    /\ UNCHANGED <<op, log, disk, disk0, sphVars, map_files, parquet_files,
                   best_parquet, regVars, expVars>>

\* lines 44-46: one iteration of the loop over zip(map_files, parquet_files).
select_best_loop ==
    /\ op = "select_best" /\ pc = "loop"
    /\ i < Min2(Len(map_files), Len(parquet_files))
    /\ LET table == read_parquet(map_files[i + 1])
       IN IF "mean_average_precision" \in table.columns
            THEN /\ scores' = setitem(scores, parquet_files[i + 1],
                                      mean(table.mean_average_precision))
                 /\ i' = i + 1
                 /\ UNCHANGED <<pc, err>>
            ELSE /\ Raise("KeyError")
                 /\ UNCHANGED <<scores, i>>
    /\ UNCHANGED <<op, log, disk, disk0, sphVars, map_files, parquet_files,
                   best_parquet, regVars, expVars>>

\* lines 48-49: the last label of the sorted scores is copied to best_path;
\* index[-1] of an empty index is an IndexError.
select_best_copy ==
    /\ op = "select_best" /\ pc = "loop"
    /\ i = Min2(Len(map_files), Len(parquet_files))
    /\ IF scores = <<>>
         THEN /\ Raise("IndexError")
              /\ UNCHANGED <<best_parquet, disk, log>>
         ELSE \E sorted \in sort_values(scores) :
                /\ best_parquet' = sorted[Len(sorted)].key
                /\ \/ /\ disk' = [disk EXCEPT !["best_path"] = copy(best_parquet')]
                      /\ log' = Append(log, "copy")
                      /\ pc' = "done" /\ UNCHANGED err
                   \/ /\ Raise("OSError")
                      /\ UNCHANGED <<disk, log>>
    /\ UNCHANGED <<op, disk0, sphVars, map_files, parquet_files, scores, i,
                   regVars, expVars>>

select_best ==
    \/ select_best_loop
    \/ select_best_copy

\* =================================================================
\* correction units and get_method_map         src/correct.py:52-139
\* =================================================================

BatchKeys == {"Metadata_Batch", "Metadata_Source"}
LabelKeys == {"Metadata_JCP2022", "Metadata_Label"}
EmbedKeys == {"X_pca", "X_corr", "X_prev"}
CorrectedEmbeds == {"X_corr", "X_pca"}
\* The correction functions defined at module level (lines 52-125).
ModuleFunctions == {"harmony", "mnn", "scanorama", "combat", "desc", "scvi",
                    "identity", "trvaep"}
\* The names callers look up: the documented ones, trvaep, and an unknown one.
LookupNames == {"harmony", "mnn", "scanorama", "combat", "desc", "sphering",
                "scvi", "trvaep", "identity", "unknown"}

max_iter_harmony == 20
nclust == 300
scvi_n_latent == 30
scvi_n_layers == 2

OldEmbedding == [kind |-> "old"]
\* Annotated datasets: X (n_obs x n_vars), the embeddings obsm, and the
\* unstructured / per-variable annotations uns and varm.
AnnDatas ==
    {[X |-> [dtype |-> "float64", rows |-> [r \in 1..n |-> RowOf(r)]],
      obsm |-> m, uns |-> {}, varm |-> {}] :
        n \in 2..MaxRows, m \in [EmbedKeys -> {Absent, OldEmbedding}]}
NoAnnData == [X |-> [dtype |-> "float64", rows |-> <<>>],
              obsm |-> [k \in EmbedKeys |-> Absent], uns |-> {}, varm |-> {}]

\* functools.partial(func, **keywords)
partial(func, keywords) == [func |-> func, keywords |-> keywords]
NoUnit == partial("none", [batch_key |-> "none"])

\* Variant of get_method_map that also registers trvaep.
get_method_map_with_trvaep(bk, lk) ==
    ("harmony" :> partial("harmony", [batch_key |-> bk])) @@
    ("mnn" :> partial("mnn", [batch_key |-> bk])) @@
    ("scanorama" :> partial("scanorama", [batch_key |-> bk])) @@
    ("combat" :> partial("combat", [batch_key |-> bk])) @@
    ("desc" :> partial("desc", [batch_key |-> bk])) @@
    ("sphering" :> partial("identity", [batch_key |-> bk])) @@
    ("scvi" :> partial("scvi", [batch_key |-> bk, label_key |-> lk])) @@
    ("trvaep" :> partial("trvaep", [batch_key |-> bk]))

\* lines 128-139
get_method_map(bk, lk) ==
    ("harmony" :> partial("harmony", [batch_key |-> bk])) @@
    ("mnn" :> partial("mnn", [batch_key |-> bk])) @@
    ("scanorama" :> partial("scanorama", [batch_key |-> bk])) @@
    ("combat" :> partial("combat", [batch_key |-> bk])) @@
    ("desc" :> partial("desc", [batch_key |-> bk])) @@
    ("sphering" :> partial("identity", [batch_key |-> bk])) @@
    ("scvi" :> partial("scvi", [batch_key |-> bk, label_key |-> lk]))

\* adata.shape and min(adata.shape) - 1
shape(a) == <<Len(a.X.rows), Len(FeatureNames)>>
n_latent_of(a) == Min2(shape(a)[1], shape(a)[2]) - 1

\* sc.tl.pca(adata, n_comps): writes obsm['X_pca'], varm['PCs'], uns['pca'].
tl_pca(a, n_comps) ==
    [a EXCEPT !.obsm["X_pca"] = [kind |-> "pca", n_comps |-> n_comps],
              !.varm = @ \cup {"PCs"},
              !.uns = @ \cup {"pca"}]

\* adata.obsm[corrected_embed] = value
set_obsm(a, key, value) == [a EXCEPT !.obsm[key] = value]

UnitFrame == <<op, log, disk, disk0, sphVars, selVars, i, batch_key, label_key,
               correction_map, via, unit, corrected_embed, adata0, expVars>>

\* A unit runs to completion or the external algorithm raises part-way.
UnitEnds(result, partials) ==
    \/ /\ adata' = result
       /\ pc' = "done" /\ UNCHANGED err
    \/ /\ adata' \in partials
       /\ Raise("CorrectionError")

\* The caller obtains the registry (line 128).
call_get_method_map ==
    /\ op = "correct" /\ pc = "start"
    /\ correction_map' = get_method_map(batch_key, label_key)
    /\ pc' = "lookup"
    /\ UNCHANGED <<op, err, log, disk, disk0, sphVars, selVars, i, batch_key,
                   label_key, via, unit, corrected_embed, adata, adata0, expVars>>

\* correction_map[name]: a dictionary lookup, KeyError for a missing name.
lookup ==
    /\ op = "correct" /\ pc = "lookup"
    /\ \E name \in LookupNames :
         /\ via' = name
         /\ IF name \in DOMAIN correction_map
              THEN /\ unit' = correction_map[name]
                   /\ pc' = "call" /\ UNCHANGED err
              ELSE /\ Raise("KeyError") /\ UNCHANGED unit
    /\ UNCHANGED <<op, log, disk, disk0, sphVars, selVars, i, batch_key,
                   label_key, correction_map, corrected_embed, adata, adata0,
                   expVars>>

\* A module-level function called without the registry.
direct_call ==
    /\ op = "correct" /\ pc = "start"
    /\ \E f \in ModuleFunctions :
         unit' = partial(f, IF f = "scvi"
                              THEN [batch_key |-> batch_key, label_key |-> label_key]
                              ELSE [batch_key |-> batch_key])
    /\ via' = "direct"
    /\ pc' = "call"
    /\ UNCHANGED <<op, err, log, disk, disk0, sphVars, selVars, i, batch_key,
                   label_key, correction_map, corrected_embed, adata, adata0,
                   expVars>>

\* lines 52-65
harmony ==
    /\ op = "correct" /\ pc = "call" /\ unit.func = "harmony"
    /\ LET n_latent == n_latent_of(adata)
           with_pca == tl_pca(adata, n_latent)
           harmony_out == [kind |-> "harmony", basis |-> with_pca.obsm["X_pca"],
                           batch_key |-> unit.keywords.batch_key,
                           max_iter |-> max_iter_harmony, nclust |-> nclust]
       IN UnitEnds(set_obsm(with_pca, corrected_embed, harmony_out),
                   {adata, with_pca})
    /\ UNCHANGED UnitFrame

\* lines 68-76
mnn ==
    /\ op = "correct" /\ pc = "call" /\ unit.func = "mnn"
    /\ LET corrected == [kind |-> "mnn", batch_key |-> unit.keywords.batch_key]
       IN UnitEnds(set_obsm(adata, corrected_embed, corrected), {adata})
    /\ UNCHANGED UnitFrame

\* lines 79-85
scanorama ==
    /\ op = "correct" /\ pc = "call" /\ unit.func = "scanorama"
    /\ LET n_latent == n_latent_of(adata)
           with_pca == tl_pca(adata, n_latent)
           integrated == [kind |-> "scanorama", basis |-> with_pca.obsm["X_pca"],
                          batch_key |-> unit.keywords.batch_key]
       IN UnitEnds(set_obsm(with_pca, corrected_embed, integrated),
                   {adata, with_pca})
    /\ UNCHANGED UnitFrame

\* lines 88-92: inplace=False, the adjusted matrix is a copy.
combat ==
    /\ op = "correct" /\ pc = "call" /\ unit.func = "combat"
    /\ LET adjusted == [kind |-> "combat", batch_key |-> unit.keywords.batch_key]
       IN UnitEnds(set_obsm(adata, corrected_embed, adjusted), {adata})
    /\ UNCHANGED UnitFrame

\* lines 95-98
desc ==
    /\ op = "correct" /\ pc = "call" /\ unit.func = "desc"
    /\ LET X_emb == [kind |-> "desc", batch_key |-> unit.keywords.batch_key]
       IN UnitEnds(set_obsm(adata, corrected_embed, X_emb), {adata})
    /\ UNCHANGED UnitFrame

\* train_adata.X.min() and train_adata.X -= min_value
X_min(X) ==
    LET entries == {X.rows[r][c] : r \in DOMAIN X.rows, c \in 1..Len(FeatureNames)}
    IN CHOOSE m \in entries : \A e \in entries : m <= e
shift(X, m) ==
    [X EXCEPT !.rows = [r \in DOMAIN X.rows |->
                          [c \in 1..Len(FeatureNames) |-> X.rows[r][c] - m]]]

\* Variant of scvi that shifts adata.X itself (train_adata = adata, no copy).
scvi_in_place ==
    /\ op = "correct" /\ pc = "call" /\ unit.func = "scvi"
    /\ LET train_adata == [adata EXCEPT !.X = shift(adata.X, X_min(adata.X))]
           latent == [kind |-> "scvi", batch_key |-> unit.keywords.batch_key,
                      labels_key |-> unit.keywords.label_key,
                      trained_on |-> train_adata.X,
                      n_layers |-> scvi_n_layers, n_latent |-> scvi_n_latent]
       IN UnitEnds(set_obsm(train_adata, corrected_embed, latent), {train_adata})
    /\ UNCHANGED UnitFrame

\* lines 101-114: the shift to non-negative values is applied to a copy.
scvi ==
    /\ op = "correct" /\ pc = "call" /\ unit.func = "scvi"
    /\ LET train_adata == [adata EXCEPT !.X = shift(adata.X, X_min(adata.X))]
           latent == [kind |-> "scvi", batch_key |-> unit.keywords.batch_key,
                      labels_key |-> unit.keywords.label_key,
                      trained_on |-> train_adata.X,
                      n_layers |-> scvi_n_layers, n_latent |-> scvi_n_latent]
       IN UnitEnds(set_obsm(adata, corrected_embed, latent), {adata})
    /\ UNCHANGED UnitFrame

\* lines 117-118
identity ==
    /\ op = "correct" /\ pc = "call" /\ unit.func = "identity"
    /\ adata' = set_obsm(adata, corrected_embed, adata.X)
    /\ pc' = "done"
    /\ UNCHANGED err
    /\ UNCHANGED UnitFrame

\* lines 121-125: works on a float32 copy; not registered in get_method_map.
trvaep ==
    /\ op = "correct" /\ pc = "call" /\ unit.func = "trvaep"
    /\ LET adata_int == [kind |-> "trvaep", batch_key |-> unit.keywords.batch_key]
       IN UnitEnds(set_obsm(adata, corrected_embed, adata_int), {adata})
    /\ UNCHANGED UnitFrame

correct ==
    \/ call_get_method_map
    \/ lookup
    \/ direct_call
    \/ harmony
    \/ mnn
    \/ scanorama
    \/ combat
    \/ desc
    \/ scvi
    \/ identity
    \/ trvaep

\* =================================================================
\* explore_params                  src/explore_reg_params.py:16-40
\* =================================================================

epsilon_mad == "0.00029032327858896217"
sweep_lambda == "5.566152843198177e-06"
Template == [sphering_lambda |-> "template", epsilon_mad |-> "template"]
NoConfig == [sphering_lambda |-> "unset", epsilon_mad |-> "unset"]

TmpDir(k) == [dir |-> k, file |-> "."]
TmpFile(k) == [dir |-> k, file |-> "config.json"]
\* TemporaryDirectory.__exit__: the directory and everything in it is removed.
cleanup(fs, k) == {f \in fs : f.dir # k}

ExploreFrame == <<op, log, disk, disk0, sphVars, selVars, regVars, n_opts>>

\* lines 19-21: the template is opened and parsed.
explore_load ==
    /\ op = "explore_params" /\ pc = "load"
    /\ \/ /\ config' = Template
          /\ pc' = "for" /\ UNCHANGED err
       \/ /\ Raise("OSError")
          /\ UNCHANGED config
    /\ UNCHANGED <<ExploreFrame, i, tmpfs, exc, started>>

\* lines 24-31: the loop head and the parameters of iteration i.
explore_for ==
    /\ op = "explore_params" /\ pc = "for"
    /\ IF i < n_opts
         THEN /\ config' = [config EXCEPT !.sphering_lambda = sweep_lambda,
                                          !.epsilon_mad = epsilon_mad]
              /\ started' = Append(started, i)
              /\ pc' = "enter"
         ELSE /\ pc' = "done"
              /\ UNCHANGED <<config, started>>
    /\ UNCHANGED <<ExploreFrame, err, i, tmpfs, exc>>

\* line 32: with TemporaryDirectory() as tmpdir
explore_enter ==
    /\ op = "explore_params" /\ pc = "enter"
    /\ \/ /\ tmpfs' = tmpfs \cup {TmpDir(i)}
          /\ pc' = "dump" /\ UNCHANGED err
       \/ /\ Raise("OSError")
          /\ UNCHANGED tmpfs
    /\ UNCHANGED <<ExploreFrame, config, i, exc, started>>

\* lines 33-35: the configuration of this iteration is written into tmpdir.
explore_dump ==
    /\ op = "explore_params" /\ pc = "dump"
    /\ \/ /\ tmpfs' = tmpfs \cup {TmpFile(i)}
          /\ pc' = "correction" /\ UNCHANGED exc
       \/ /\ tmpfs' \in {tmpfs, tmpfs \cup {TmpFile(i)}}
          /\ exc' = "OSError"
          /\ pc' = "exit"
    /\ UNCHANGED <<ExploreFrame, err, config, i, started>>

\* lines 37-39: PathLocator(...) and correction_workflow(locator, vis='mde')
explore_correction ==
    /\ op = "explore_params" /\ pc = "correction"
    /\ \/ /\ pc' = "evaluation" /\ UNCHANGED exc
       \/ /\ exc' = "CorrectionError"
          /\ pc' = "exit"
    /\ UNCHANGED <<ExploreFrame, err, config, i, tmpfs, started>>

\* line 40: evaluation_workflow(locator, METRICS_SET['FAST'])
explore_evaluation ==
    /\ op = "explore_params" /\ pc = "evaluation"
    /\ \/ UNCHANGED exc
       \/ exc' = "EvaluationError"
    /\ pc' = "exit"
    /\ UNCHANGED <<ExploreFrame, err, config, i, tmpfs, started>>

\* Variant of explore_exit for a directory made with mkdtemp and removed at
\* the end of the block: an exception skips the removal.
explore_exit_leak ==
    /\ op = "explore_params" /\ pc = "exit"
    /\ IF exc # "none"
         THEN /\ Raise(exc) /\ UNCHANGED <<i, tmpfs>>
         ELSE /\ tmpfs' = cleanup(tmpfs, i)
              /\ i' = i + 1
              /\ pc' = "for" /\ UNCHANGED err
    /\ UNCHANGED <<ExploreFrame, config, exc, started>>

\* line 32, leaving the with block: the directory is removed, then a pending
\* exception propagates out of explore_params, else the loop goes on.
explore_exit ==
    /\ op = "explore_params" /\ pc = "exit"
    /\ tmpfs' = cleanup(tmpfs, i)
    /\ IF exc # "none"
         THEN /\ Raise(exc) /\ UNCHANGED i
         ELSE /\ i' = i + 1
              /\ pc' = "for" /\ UNCHANGED err
    /\ UNCHANGED <<ExploreFrame, config, exc, started>>

explore_params ==
    \/ explore_load
    \/ explore_for
    \/ explore_enter
    \/ explore_dump
    \/ explore_correction
    \/ explore_evaluation
    \/ explore_exit

\* =================================================================
\* the specification
\* =================================================================

OutputPaths == {"sphered_path", "spherer_path", "best_path"}

SphIdle ==
    /\ mode = "cov" /\ lambda_ = 1 /\ column_norm = "label" /\ values_norm = {}
    /\ dframe = NoDataset
SphLocals ==
    /\ spherer = NoSpherer /\ meta = NoDataset.meta /\ vals = NoDataset.vals
    /\ features = <<>> /\ train_ix = <<>>
SelIdle == map_files = <<>> /\ parquet_files = <<>>
SelLocals == scores = <<>> /\ best_parquet = "none"
RegIdle ==
    /\ batch_key = "none" /\ label_key = "none" /\ corrected_embed = "none"
    /\ adata = NoAnnData
RegLocals ==
    /\ correction_map = <<>> /\ via = "none" /\ unit = NoUnit /\ adata0 = adata
ExpIdle == n_opts = 0
ExpLocals == config = NoConfig /\ tmpfs = {} /\ exc = "none" /\ started = <<>>

InitSphering ==
    /\ op = "sphering" /\ pc = "make"
    /\ mode \in Modes
    /\ lambda_ \in Regularizations
    /\ column_norm \in ColumnNames
    /\ values_norm \in ValueSets
    /\ dframe \in Datasets
    /\ disk \in [OutputPaths -> PriorContents]
    /\ disk["best_path"] = Absent
    /\ disk["sphered_path"] = disk["spherer_path"]
    /\ SelIdle /\ RegIdle /\ ExpIdle

\* The two lists are parallel: one map file per corrected dataset.
InitSelectBest ==
    /\ op = "select_best" /\ pc = "loop"
    /\ map_files \in SeqsUpTo(MapNames, MaxCands)
    /\ parquet_files \in SeqsUpTo(ParquetNames, MaxCands)
    /\ Len(map_files) = Len(parquet_files)
    /\ disk \in [OutputPaths -> PriorContents]
    /\ disk["sphered_path"] = Absent /\ disk["spherer_path"] = Absent
    /\ SphIdle /\ RegIdle /\ ExpIdle

InitCorrect ==
    /\ op = "correct" /\ pc = "start"
    /\ batch_key \in BatchKeys
    /\ label_key \in LabelKeys
    /\ corrected_embed \in CorrectedEmbeds
    /\ adata \in AnnDatas
    /\ disk = [p \in OutputPaths |-> Absent]
    /\ SphIdle /\ SelIdle /\ ExpIdle

InitExplore ==
    /\ op = "explore_params" /\ pc = "load"
    /\ n_opts \in 0..MaxOpts
    /\ disk = [p \in OutputPaths |-> Absent]
    /\ SphIdle /\ SelIdle /\ RegIdle

Init ==
    /\ \/ InitSphering
       \/ InitSelectBest
       \/ InitCorrect
       \/ InitExplore
    /\ err = "none" /\ log = <<>> /\ i = 0
    /\ disk0 = disk
    /\ SphLocals /\ SelLocals /\ RegLocals /\ ExpLocals

Next ==
    \/ sphering
    \/ select_best
    \/ correct
    \/ explore_params

Spec == Init /\ [][Next]_vars

\* =================================================================
\* properties
\* =================================================================

Done(o) == op = o /\ pc = "done"
Succeeded(o) == Done(o) /\ err = "none"

\* ---- select_best
NCands == Len(parquet_files)
HasColumn(k) == "mean_average_precision" \in read_parquet(map_files[k]).columns
\* The mean score of candidate k, as the loop computes it.
CandMean(k) == mean(read_parquet(map_files[k]).mean_average_precision)
\* The candidates whose mean is maximal: defined, and exceeded by none.
MaximalCands ==
    {k \in 1..NCands : ~IsNaN(CandMean(k)) /\ \A l \in 1..NCands : ~Lt(CandMean(k), CandMean(l))}
LatestOf(S) == CHOOSE k \in S : \A l \in S : l <= k

\* C1: after a successful select_best the file at best_path is a copy of one
\* of the given dataset files, and no candidate has a strictly greater mean
\* than the candidate copied -- for every score table, NaN means and repeated
\* dataset paths included.
C1_SelectBestPicksMaximum ==
    Succeeded("select_best") =>
        /\ disk["best_path"] = copy(best_parquet)
        /\ \E j \in 1..NCands :
             /\ parquet_files[j] = best_parquet
             /\ \A k \in 1..NCands : ~Lt(CandMean(j), CandMean(k))

\* C2: when two or more candidates share the maximal mean score, select_best
\* copies the one that comes latest in the input lists.
C2_TieBreakLatest ==
    (Succeeded("select_best") /\ Cardinality(MaximalCands) >= 2) =>
        best_parquet = parquet_files[LatestOf(MaximalCands)]

\* C3: if a given map file lacks the mean_average_precision column, or the
\* input lists are empty, select_best ends in an error and best_path is left
\* exactly as it was before the call.
NoSensibleBest == NCands = 0 \/ \E k \in 1..NCands : ~HasColumn(k)
C3_SelectBestFailsClosed ==
    (op = "select_best" /\ NoSensibleBest) =>
        /\ disk["best_path"] = disk0["best_path"]
        /\ "copy" \notin Range(log)
        /\ pc = "done" => err \in {"KeyError", "IndexError"}
C3_Witness ==
    /\ Done("select_best") /\ err = "KeyError"
    /\ i >= 1 /\ scores # <<>>
    /\ disk0["best_path"] = OldFile /\ disk["best_path"] = OldFile

\* ---- sphering
FitInvoked == "fit_call" \in Range(log)
\* The mask has been computed (one entry per row) and selects no row.
EmptyTrainingSet == train_ix # <<>> /\ \A r \in DOMAIN train_ix : ~train_ix[r]
OutputsUntouched ==
    /\ disk["sphered_path"] = disk0["sphered_path"]
    /\ disk["spherer_path"] = disk0["spherer_path"]
FirstIndex(e) == CHOOSE k \in DOMAIN log : log[k] = e /\ \A l \in 1..(k - 1) : log[l] # e

\* C4: when the training mask selects no row, sphering ends in an error before
\* the fit is attempted: fit is never invoked on zero rows and no output file
\* is written.
C4_EmptyTrainingSetFatal ==
    (op = "sphering" /\ pc # "fit" /\ EmptyTrainingSet) =>
        /\ ~FitInvoked
        /\ Done("sphering") /\ err # "none"
        /\ OutputsUntouched

\* C5: sphered_path and spherer_path are written only after both the fit and
\* the transform have completed; if load, fit or transform failed, neither
\* file has been written.
C5_NoPartialSpheringResults ==
    op = "sphering" =>
        /\ \A k \in DOMAIN log :
             log[k] \in {"write_sphered", "write_spherer"} =>
                /\ "fit" \in Range(SubSeq(log, 1, k - 1))
                /\ "transform" \in Range(SubSeq(log, 1, k - 1))
                /\ FirstIndex("fit") < FirstIndex("transform")
        /\ (Range(log) \cap {"split_parquet_failed", "fit_failed", "transform_failed"} # {}) =>
                OutputsUntouched
        /\ "transform" \notin Range(log) => OutputsUntouched
C5_Witness ==
    /\ Succeeded("sphering")
    /\ disk["sphered_path"].kind = "dataset" /\ disk["spherer_path"].kind = "npz"
    /\ disk0["sphered_path"] = OldFile

\* C6: the dataset written to sphered_path has the metadata and the feature
\* list of the input, and values with the row and column counts of the input
\* values, also when the training mask selects a strict subset of the rows.
C6_ShapeAndLabelInvariance ==
    (op = "sphering" /\ disk["sphered_path"].kind = "dataset") =>
        LET out == disk["sphered_path"]
        IN /\ out.meta = dframe.meta
           /\ out.features = dframe.features
           /\ Len(out.vals.rows) = Len(dframe.vals.rows)
           /\ \A r \in DOMAIN out.vals.rows :
                Len(out.vals.rows[r]) = Len(dframe.vals.rows[r])
           /\ \A c \in DOMAIN out.meta : Len(out.meta[c]) = Len(out.vals.rows)
C6_Witness ==
    /\ Succeeded("sphering")
    /\ disk["sphered_path"].kind = "dataset"
    /\ \E r, q \in DOMAIN train_ix : train_ix[r] /\ ~train_ix[q]
    /\ disk["sphered_path"].vals # dframe.vals

\* C9: a sphering call whose mode is neither 'cov' nor 'corr' ends in an
\* error with nothing done: the source dataset is not read, no operator is
\* constructed or fitted, and neither output path is written.
C9_ModeValidation ==
    (op = "sphering" /\ mode \notin {"cov", "corr"}) =>
        /\ pc \in {"make", "done"}
        /\ pc = "done" => err = "ValueError"
        /\ log = <<>>
        /\ spherer = NoSpherer
        /\ meta = NoDataset.meta /\ vals = NoDataset.vals
        /\ disk = disk0
C9_Witness ==
    /\ Done("sphering") /\ mode = "invalid" /\ err = "ValueError"
    /\ disk["sphered_path"] = OldFile

\* ---- registry and units
DocumentedNames == {"harmony", "mnn", "scanorama", "combat", "desc", "sphering", "scvi"}
ThroughRegistry == op = "correct" /\ via \notin {"none", "direct"}

\* C7: the mapping returned by get_method_map has exactly the documented
\* names as keys, batch_key is bound in every entry and label_key only in the
\* scvi entry; looking up any other name (trvaep included) is a KeyError.
C7_RegistryCompleteness ==
    (op = "correct" /\ pc # "start" /\ via # "direct") =>
        /\ DOMAIN correction_map = DocumentedNames
        /\ \A n \in DOMAIN correction_map :
             /\ correction_map[n].keywords.batch_key = batch_key
             /\ ("label_key" \in DOMAIN correction_map[n].keywords) <=> (n = "scvi")
        /\ correction_map["scvi"].keywords.label_key = label_key
        /\ (via \notin DocumentedNames \cup {"none"}) =>
             /\ Done("correct") /\ err = "KeyError"
             /\ unit = NoUnit /\ adata = adata0
C7_Witness ==
    /\ Done("correct") /\ via = "trvaep" /\ err = "KeyError"
    /\ "trvaep" \in ModuleFunctions

PcaUnits == {"harmony", "scanorama"}
\* C8 as stated: a successful call of a registered unit changes the dataset
\* only by setting the embedding keyed by corrected_embed.
C8_OnlyCorrectedEmbedAdded ==
    (ThroughRegistry /\ Succeeded("correct")) =>
        /\ adata.X = adata0.X
        /\ \A k \in EmbedKeys \ {corrected_embed} : adata.obsm[k] = adata0.obsm[k]
        /\ adata.uns = adata0.uns /\ adata.varm = adata0.varm

\* C8 amended: a successful call of a registered unit leaves X unmodified and
\* sets the embedding keyed by corrected_embed; mnn, combat, desc, identity
\* and scvi change nothing else, while harmony and scanorama also write the
\* X_pca embedding and the PCA annotations (varm PCs, uns pca).
C8_SideEffectScoped ==
    (ThroughRegistry /\ Succeeded("correct")) =>
        /\ adata.X = adata0.X
        /\ adata.obsm[corrected_embed] \notin {Absent, OldEmbedding}
        /\ \A k \in EmbedKeys \ {corrected_embed} :
             IF unit.func \in PcaUnits /\ k = "X_pca"
               THEN adata.obsm[k] = [kind |-> "pca", n_comps |-> n_latent_of(adata0)]
               ELSE adata.obsm[k] = adata0.obsm[k]
        /\ IF unit.func \in PcaUnits
             THEN adata.uns = adata0.uns \cup {"pca"} /\ adata.varm = adata0.varm \cup {"PCs"}
             ELSE adata.uns = adata0.uns /\ adata.varm = adata0.varm
C8_Witness ==
    /\ ThroughRegistry /\ Succeeded("correct")
    /\ unit.func = "harmony" /\ corrected_embed = "X_corr"
    /\ adata0.obsm["X_pca"] = Absent /\ adata.obsm["X_pca"] # Absent
    /\ adata0.obsm["X_prev"] = OldEmbedding

\* ---- explore_params
TmpDirs == {f \in tmpfs : f.file = "."}

\* C10: the temporary directory of an iteration and the config file in it are
\* gone once the iteration ends, whether the workflows succeeded or raised; at
\* most one sweep directory exists at any time; a failure in iteration i
\* propagates, no later iteration runs and nothing is left behind.
C10_SweepCleanup ==
    op = "explore_params" =>
        /\ Cardinality(TmpDirs) <= 1
        /\ \A f \in tmpfs : f.dir = i /\ pc \in {"dump", "correction", "evaluation", "exit"}
        /\ pc \in {"load", "for", "enter", "done"} => tmpfs = {}
        /\ (pc = "done" /\ exc # "none") =>
             /\ err = exc
             /\ i < n_opts
             /\ started = [k \in 1..(i + 1) |-> k - 1]
        /\ Succeeded("explore_params") => started = [k \in 1..n_opts |-> k - 1]
C10_Witness ==
    /\ Done("explore_params") /\ exc = "EvaluationError" /\ err = exc
    /\ i >= 1 /\ tmpfs = {}

====
